---- MODULE Spec2Model ----
(***************************************************************************)
(* Shielder: the admission pipeline of the reverse proxy.                  *)
(*   limiter.RateLimiter  (IsAllowed, BlockIP, IsBlocked) over Redis       *)
(*   proxy.Server.handler (block check, rate check, forward, metrics)      *)
(*   monitor.MetricsCollector                                              *)
(* Time is counted in ticks; a Redis key's TTL is its remaining ticks.     *)
(***************************************************************************)
EXTENDS Integers, Sequences, FiniteSets, Bags, TLC

\* ------------------------------------------------------------------ bounds
\* requests received in one run
NumRequests == 3
\* requests handled concurrently (handler goroutines)
MaxInFlight == 2
\* store calls that fail in one run
MaxFailures == 1
MaxThreshold == 2
MaxBlockDuration == 2
\* largest configured burst size
MaxBurst == 1
\* longest value of RATE_LIMIT_REQUESTS_PER_MINUTE, in characters
MaxEnvLen == 2

\* time.Minute, the counter's window, in ticks
Window == 2

IPs == {"A", "B"}
Paths == {"/", "/x"}

VARIABLES
    boot,       \* the start of the process: config.Load's progress and result
    lifetime,   \* history, kept when lifetime.on: per identity, since its counter was
                \* created, the INCRs applied, those that read a count the limiter
                \* allows, and the requests forwarded
    config,     \* limiter.Config, immutable after construction
    store,      \* the Redis keyspace: key -> [val, ttl]
    handlers,   \* bag of the handler invocations in progress, one record per request;
                \* path is the request's r.URL.Path, an input the handler first reads
                \* in its deferred call
    received,   \* history: requests received so far
    failures,   \* history: store calls that failed so far
    calls,      \* history: IsAllowed calls per identity since its counter was created
    clean,      \* history: no store call of IsAllowed failed for the identity since then
    exceeded    \* history: some IsAllowed call for the identity read a count above the threshold

vars == <<boot, lifetime, config, store, handlers, received, failures, calls, clean, exceeded>>

\* ------------------------------------------------------------------ Redis
\* TTL convention of Redis: -2 key absent, -1 key without expiry, > 0 remaining
NoKey == -2
NoTTL == -1
Absent == [val |-> 0, ttl |-> NoKey]

\* one counter key for every identity
RateKey_Global(ip) == <<"rate:", "A">>

RateKey(ip) == <<"rate:", ip>>
BlockedKey(ip) == <<"blocked:", ip>>
Keys == {RateKey(ip) : ip \in IPs} \cup {BlockedKey(ip) : ip \in IPs}

Exists(s, k) == IF s[k].ttl # NoKey THEN 1 ELSE 0

\* INCR that starts again a counter found without a TTL
Incr_Restart(s, k) ==
    IF s[k].ttl \in {NoKey, NoTTL}
    THEN [s EXCEPT ![k] = [val |-> 1, ttl |-> NoTTL]]
    ELSE [s EXCEPT ![k].val = @ + 1]

Incr(s, k) ==
    IF s[k].ttl = NoKey
    THEN [s EXCEPT ![k] = [val |-> 1, ttl |-> NoTTL]]
    ELSE [s EXCEPT ![k].val = @ + 1]

\* EXPIRE applied only to a key that has no TTL yet
Expire_OnlyNew(s, k, t) ==
    IF s[k].ttl = NoTTL THEN [s EXCEPT ![k].ttl = t] ELSE s

Expire(s, k, t) ==
    IF s[k].ttl = NoKey THEN s ELSE [s EXCEPT ![k].ttl = t]

Set(s, k, v, t) == [s EXCEPT ![k] = [val |-> v, ttl |-> t]]

\* one tick of the store's clock: keys whose TTL runs out are removed
Elapse(s) ==
    [k \in Keys |->
        IF s[k].ttl > 1 THEN [s[k] EXCEPT !.ttl = @ - 1]
        ELSE IF s[k].ttl = 1 THEN Absent
        ELSE s[k]]

\* ---------------------------------------------------------------- metrics
\* the collector's methods, as the calls a handler makes on it
ObserveRequestDuration(path) == <<"ObserveRequestDuration", path>>
IncBlockedRequests(ip) == <<"IncBlockedRequests", ip>>
IncSuccessfulRequests(ip) == <<"IncSuccessfulRequests", ip>>

\* ---------------------------------------------------------------- limiter
\* the existence check made on the counter's key
IsBlocked_Counter(s, ip) == Exists(s, RateKey(ip)) = 1

\* IsBlocked: exists == 1
IsBlocked(s, ip) == Exists(s, BlockedKey(ip)) = 1

\* the limit compared with >=
OverLimit_Ge(count, cfg) == count >= cfg.RequestsPerMinute

\* the count compared with the burst size
OverLimit_Burst(count, cfg) == count > cfg.BurstSize

\* the burst size added to the limit
OverLimit_PlusBurst(count, cfg) == count > cfg.RequestsPerMinute + cfg.BurstSize

\* the count compared with twice the limit
OverLimit_Twice(count, cfg) == count > 2 * cfg.RequestsPerMinute

\* IsAllowed: count > int64(r.config.RequestsPerMinute)
OverLimit(count, cfg) == count > cfg.RequestsPerMinute

\* the Block Record written only when there is none (its TTL kept otherwise)
BlockIP_KeepTTL(s, ip, cfg) ==
    IF Exists(s, BlockedKey(ip)) = 1 THEN s ELSE Set(s, BlockedKey(ip), 1, cfg.BlockDuration)

\* the block that also deletes the identity's counter
BlockIP_ResetsCounter(s, ip, cfg) ==
    [Set(s, BlockedKey(ip), 1, cfg.BlockDuration) EXCEPT ![RateKey(ip)] = Absent]

\* the Block Record written for a single tick
BlockIP_OneTick(s, ip, cfg) == Set(s, BlockedKey(ip), 1, 1)

\* the Block Record written without expiration
BlockIP_NoExpiry(s, ip, cfg) == Set(s, BlockedKey(ip), 1, NoTTL)

\* BlockIP: client.Set(ctx, "blocked:"+ip, true, BlockDuration)
BlockIP(s, ip, cfg) == Set(s, BlockedKey(ip), 1, cfg.BlockDuration)

\* ---------------------------------------------------------------- handler
\* the handler's branches: what it writes and records before returning
StoreErrorBranch == << <<"http.Error", 500>> >>
\* the rejection without its metric
RejectedBranch_NoMetric(ip) == << <<"http.Error", 429>> >>

RejectedBranch(ip) == << <<"http.Error", 429>>, IncBlockedRequests(ip) >>
ForwardBranch(ip) == << <<"ServeHTTP", ip>>, IncSuccessfulRequests(ip) >>
\* the duration observed under a fixed label
Deferred_FixedLabel(path) == << ObserveRequestDuration("/") >>

\* the deferred function, run when the handler returns
Deferred(path) == << ObserveRequestDuration(path) >>

\* the block check started again after a store error
AfterIsBlocked_Retry(blocked, err) ==
    IF err THEN "BLOCK_CHECK" ELSE IF blocked THEN "REJECTED" ELSE "RATE_CHECK"

\* the blocked branch without its return
AfterIsBlocked_NoReturn(blocked, err) ==
    IF err THEN "STORE_ERROR" ELSE "RATE_CHECK"

\* where the handler goes after IsBlocked returned (blocked, err)
AfterIsBlocked(blocked, err) ==
    IF err THEN "STORE_ERROR" ELSE IF blocked THEN "REJECTED" ELSE "RATE_CHECK"

\* the block check made again after an allowed rate check
AfterIsAllowed_Recheck(allowed, err) ==
    IF err THEN "STORE_ERROR" ELSE IF ~allowed THEN "REJECTED" ELSE "BLOCK_CHECK"

\* the rate-exceeded branch without its return
AfterIsAllowed_NoReject(allowed, err) ==
    IF err THEN "STORE_ERROR" ELSE "FORWARD"

\* !allowed tested before err
AfterIsAllowed_FalseFirst(allowed, err) ==
    IF ~allowed THEN "REJECTED" ELSE IF err THEN "STORE_ERROR" ELSE "FORWARD"

\* where the handler goes after IsAllowed returned (allowed, err)
AfterIsAllowed(allowed, err) ==
    IF err THEN "STORE_ERROR" ELSE IF ~allowed THEN "REJECTED" ELSE "FORWARD"

Terminal == {"DONE", "REJECTED", "STORE_ERROR"}

\* the events of the branch that ends in a terminal state, then the deferred call
Leave(state, ip, path) ==
    (IF state = "STORE_ERROR" THEN StoreErrorBranch
     ELSE IF state = "REJECTED" THEN RejectedBranch(ip)
     ELSE <<>>) \o (IF state \in Terminal THEN Deferred(path) ELSE <<>>)

\* a store call fails (fail) only while the run's failures are below the bound
StoreCall(fail) ==
    /\ fail => failures < MaxFailures
    /\ failures' = IF fail THEN failures + 1 ELSE failures

\* the handler's locals when a request is received
NewRequest(ip) ==
    [pc |-> "BLOCK_CHECK", clientIP |-> ip, path |-> "",
     trace |-> << <<"Received", ip>> >>,
     blocked |-> "none", allowed |-> "none", count |-> 0, callNo |-> 0, cleanCall |-> TRUE]

\* the requests being handled
Requests == BagToSet(handlers)

\* handler invocation h takes a step and becomes h2
Becomes(h, h2) == handlers' = (handlers (-) SetToBag({h})) (+) SetToBag({h2})

\* main: config.Load has returned a configuration and the server is started
Serving == [pc |-> "SERVING"]

\* no history of the counters' lifetimes is kept
NotRecorded ==
    [on |-> FALSE, incrs |-> [ip \in IPs |-> 0], admitted |-> [ip \in IPs |-> 0],
     forwarded |-> [ip \in IPs |-> 0]]
\* the history becomes l in this step, when it is kept
Recorded(l) == lifetime' = IF lifetime.on THEN l ELSE lifetime

Init ==
    /\ boot = Serving
    /\ lifetime = NotRecorded
    /\ config \in [RequestsPerMinute : 1..MaxThreshold,
                   BurstSize : {0},
                   BlockDuration : 1..MaxBlockDuration]
    /\ store = [k \in Keys |-> Absent]
    /\ handlers = EmptyBag
    /\ calls = [ip \in IPs |-> 0]
    /\ clean = [ip \in IPs |-> TRUE]
    /\ exceeded = [ip \in IPs |-> FALSE]
    /\ received = 0
    /\ failures = 0

\* RECEIVED: clientIP := r.RemoteAddr, start the timer, install the deferred call
\* (identities are interchangeable: the first request received names identity A)
Receive(ip) ==
    /\ received < NumRequests
    /\ received = 0 => ip = "A"
    /\ BagCardinality(handlers) < MaxInFlight
    /\ received' = received + 1
    /\ handlers' = handlers (+) SetToBag({NewRequest(ip)})
    /\ UNCHANGED <<boot, lifetime, config, store, failures, calls, clean, exceeded>>

\* the block check that renews the Block Record it finds
BlockCheck_Refreshes(h, fail, path) ==
    /\ StoreCall(fail)
    /\ h.pc = "BLOCK_CHECK"
    /\ LET ip == h.clientIP
           blocked == IF fail THEN FALSE ELSE IsBlocked(store, ip)
           next == AfterIsBlocked(blocked, fail)
           events == << <<"IsBlocked", ip>> >> \o Leave(next, ip, path)
       IN /\ store' = IF blocked THEN BlockIP(store, ip, config) ELSE store
          /\ Becomes(h, [h EXCEPT
                        !.pc = next,
                        !.blocked = IF fail THEN "error" ELSE IF blocked THEN "true" ELSE "false",
                        !.path = IF next \in Terminal THEN path ELSE @,
                        !.trace = @ \o events])
    /\ UNCHANGED <<boot, lifetime, config, received, calls, clean, exceeded>>

\* BLOCK_CHECK: IsBlocked, then the handler's error / blocked branches
BlockCheck(h, fail, path) ==
    /\ StoreCall(fail)
    /\ h.pc = "BLOCK_CHECK"
    /\ LET ip == h.clientIP
           blocked == IF fail THEN FALSE ELSE IsBlocked(store, ip)
           next == AfterIsBlocked(blocked, fail)
           events == << <<"IsBlocked", ip>> >> \o Leave(next, ip, path)
       IN Becomes(h, [h EXCEPT
                        !.pc = next,
                        !.blocked = IF fail THEN "error" ELSE IF blocked THEN "true" ELSE "false",
                        !.path = IF next \in Terminal THEN path ELSE @,
                        !.trace = @ \o events])
    /\ UNCHANGED <<boot, lifetime, config, store, received, calls, clean, exceeded>>

\* RATE_CHECK, first command of the pipeline: INCR rate:<ip>
\* fail: the pipeline could not be submitted, Exec returns the error
PipeIncr(h, fail, path) ==
    /\ StoreCall(fail)
    /\ h.pc = "RATE_CHECK"
    /\ LET ip == h.clientIP
           key == RateKey(ip)
           fresh == Exists(store, key) = 0
           n == IF fresh THEN 1 ELSE calls[ip] + 1
           ok == (IF fresh THEN TRUE ELSE clean[ip])
           next == AfterIsAllowed(FALSE, TRUE)
           events == << <<"IsAllowed", ip>> >> \o (IF fail THEN Leave(next, ip, path) ELSE <<>>)
       IN /\ calls' = [calls EXCEPT ![ip] = n]
          /\ clean' = [clean EXCEPT ![ip] = ok /\ ~fail]
          /\ store' = IF fail THEN store ELSE Incr(store, key)
          /\ Recorded(IF fail THEN lifetime
                      ELSE [lifetime EXCEPT
                              !.incrs[ip] = IF fresh THEN 1 ELSE @ + 1,
                              !.admitted[ip] = (IF fresh THEN 0 ELSE @) +
                                  (IF OverLimit(store'[key].val, config) THEN 0 ELSE 1),
                              !.forwarded[ip] = IF fresh THEN 0 ELSE @])
          /\ Becomes(h, [h EXCEPT
                        !.pc = IF fail THEN next ELSE "PIPE_EXPIRE",
                        !.allowed = IF fail THEN "error" ELSE @,
                        !.count = IF fail THEN 0 ELSE store'[key].val,
                        !.callNo = IF fail THEN 0 ELSE n,
                        !.cleanCall = IF fail THEN TRUE ELSE ok,
                        !.path = IF fail THEN path ELSE @,
                        !.trace = @ \o events])
    /\ UNCHANGED <<boot, config, received, exceeded>>

\* second command of the pipeline: EXPIRE rate:<ip> time.Minute; then Exec returns,
\* count := incr.Val() is compared with the limit
PipeExpire(h) ==
    /\ h.pc = "PIPE_EXPIRE"
    /\ LET ip == h.clientIP
           over == OverLimit(h.count, config)
           next == IF over THEN "BLOCK_IP" ELSE AfterIsAllowed(TRUE, FALSE)
       IN /\ store' = Expire(store, RateKey(ip), Window)
          /\ exceeded' = [exceeded EXCEPT ![ip] = @ \/ h.count > config.RequestsPerMinute]
          /\ Becomes(h, [h EXCEPT
                        !.pc = next,
                        !.allowed = IF over THEN @ ELSE "true",
                        !.count = IF over THEN @ ELSE 0,
                        !.callNo = IF over THEN @ ELSE 0,
                        !.cleanCall = IF over THEN @ ELSE TRUE])
    /\ UNCHANGED <<boot, lifetime, config, received, failures, calls, clean>>

\* count above the limit: BlockIP, IsAllowed returns (false, err)
BlockStep(h, fail, path) ==
    /\ StoreCall(fail)
    /\ h.pc = "BLOCK_IP"
    /\ LET ip == h.clientIP
           next == AfterIsAllowed(FALSE, fail)
           events == Leave(next, ip, path)
       IN /\ store' = IF fail THEN store ELSE BlockIP(store, ip, config)
          /\ clean' = [clean EXCEPT ![ip] = @ /\ ~fail]
          /\ Becomes(h, [h EXCEPT
                        !.pc = next,
                        !.allowed = IF fail THEN "false_error" ELSE "false",
                        !.count = 0, !.callNo = 0, !.cleanCall = TRUE,
                        !.path = path,
                        !.trace = @ \o events])
    /\ UNCHANGED <<boot, lifetime, config, received, calls, exceeded>>

\* FORWARD: proxy.ServeHTTP relays the origin's answer, then
\* IncSuccessfulRequests and the deferred call
Forward(h, path) ==
    /\ h.pc = "FORWARD"
    /\ LET ip == h.clientIP
           events == ForwardBranch(ip) \o Leave("DONE", ip, path)
       IN /\ Becomes(h, [h EXCEPT !.pc = "DONE", !.path = path, !.trace = @ \o events])
          /\ Recorded([lifetime EXCEPT
                         !.forwarded[ip] = IF Exists(store, RateKey(ip)) = 1 THEN @ + 1 ELSE @])
    /\ UNCHANGED <<boot, config, store, received, failures, calls, clean, exceeded>>

\* the handler has returned
Return(h) ==
    /\ h.pc \in Terminal
    /\ handlers' = handlers (-) SetToBag({h})
    /\ UNCHANGED <<boot, lifetime, config, store, received, failures, calls, clean, exceeded>>

\* the store's clock advances
Tick ==
    /\ \E k \in Keys : store[k].ttl > 0
    /\ store' = Elapse(store)
    /\ LET ends(ip) == Exists(store, RateKey(ip)) = 1 /\ Exists(store', RateKey(ip)) = 0
       IN Recorded([lifetime EXCEPT
                      !.incrs = [ip \in IPs |-> IF ends(ip) THEN 0 ELSE @[ip]],
                      !.admitted = [ip \in IPs |-> IF ends(ip) THEN 0 ELSE @[ip]],
                      !.forwarded = [ip \in IPs |-> IF ends(ip) THEN 0 ELSE @[ip]]])
    /\ UNCHANGED <<boot, config, handlers, received, failures, calls, clean, exceeded>>

Next ==
    \/ \E ip \in IPs : Receive(ip)
    \/ \E h \in Requests, fail \in BOOLEAN, path \in Paths : BlockCheck(h, fail, path)
    \/ \E h \in Requests, fail \in BOOLEAN, path \in Paths : PipeIncr(h, fail, path)
    \/ \E h \in Requests : PipeExpire(h)
    \/ \E h \in Requests, fail \in BOOLEAN, path \in Paths : BlockStep(h, fail, path)
    \/ \E h \in Requests, path \in Paths : Forward(h, path)
    \/ \E h \in Requests : Return(h)
    \/ Tick

Spec == Init /\ [][Next]_vars

\* the burst sizes a configuration may carry (RateLimitConfig.BurstSize)
BurstSizes == 0..MaxBurst

\* the limiter constructed with any burst size
InitBurst ==
    /\ boot = Serving
    /\ lifetime = NotRecorded
    /\ config \in [RequestsPerMinute : 1..MaxThreshold,
                   BurstSize : BurstSizes,
                   BlockDuration : {MaxBlockDuration}]
    /\ store = [k \in Keys |-> Absent]
    /\ handlers = EmptyBag
    /\ calls = [ip \in IPs |-> 0]
    /\ clean = [ip \in IPs |-> TRUE]
    /\ exceeded = [ip \in IPs |-> FALSE]
    /\ received = 0
    /\ failures = 0

SpecBurst == InitBurst /\ [][Next]_vars

\* the same limiter, with the history of the counters' lifetimes kept
InitLifetime ==
    /\ boot = Serving
    /\ lifetime = [NotRecorded EXCEPT !.on = TRUE]
    /\ config \in [RequestsPerMinute : 1..MaxThreshold,
                   BurstSize : {0},
                   BlockDuration : {MaxBlockDuration}]
    /\ store = [k \in Keys |-> Absent]
    /\ handlers = EmptyBag
    /\ calls = [ip \in IPs |-> 0]
    /\ clean = [ip \in IPs |-> TRUE]
    /\ exceeded = [ip \in IPs |-> FALSE]
    /\ received = 0
    /\ failures = 0

SpecLifetime == InitLifetime /\ [][Next]_vars

\* the limiter with the smallest limit and block duration: every branch of
\* the handler is taken by the second request of an identity
InitFair ==
    /\ boot = Serving
    /\ lifetime = NotRecorded
    /\ config = [RequestsPerMinute |-> 1, BurstSize |-> 0, BlockDuration |-> 1]
    /\ store = [k \in Keys |-> Absent]
    /\ handlers = EmptyBag
    /\ calls = [ip \in IPs |-> 0]
    /\ clean = [ip \in IPs |-> TRUE]
    /\ exceeded = [ip \in IPs |-> FALSE]
    /\ received = 0
    /\ failures = 0

\* a step of some handler: a store call or the origin's forward returns, or
\* the handler returns
HandlerStep ==
    \/ \E h \in Requests, fail \in BOOLEAN, path \in Paths : BlockCheck(h, fail, path)
    \/ \E h \in Requests, fail \in BOOLEAN, path \in Paths : PipeIncr(h, fail, path)
    \/ \E h \in Requests : PipeExpire(h)
    \/ \E h \in Requests, fail \in BOOLEAN, path \in Paths : BlockStep(h, fail, path)
    \/ \E h \in Requests, path \in Paths : Forward(h, path)
    \/ \E h \in Requests : Return(h)

\* every store call and the origin's forward eventually return: while a
\* handler is in progress, some handler eventually takes its step
FairSpec == InitFair /\ [][Next]_vars /\ WF_vars(HandlerStep)

\* ----------------------------------------------------------- config.Load
\* a string field is an atomic string; the value of
\* RATE_LIMIT_REQUESTS_PER_MINUTE is the sequence of its characters, which
\* Sscanf reads one by one
Nil == "nil"
Digits == {"0", "1", "2", "3", "4", "5", "6", "7", "8", "9"}
DigitValue(c) ==
    CASE c = "0" -> 0 [] c = "1" -> 1 [] c = "2" -> 2 [] c = "3" -> 3 [] c = "4" -> 4
      [] c = "5" -> 5 [] c = "6" -> 6 [] c = "7" -> 7 [] c = "8" -> 8 [] c = "9" -> 9

\* the characters an environment value is made of here
EnvChars == {"0", "2", "-", "x"}
EnvNumbers == UNION {[1..n -> EnvChars] : n \in 0..MaxEnvLen}

\* the fields of Config that Load's steps read or write
FileConfigs ==
    [ListenAddr : {"", ":8080"},
     RedisAddr : {"localhost:6379"},
     RedisPassword : {""},
     RequestsPerMinute : {-1, 0, 100},
     BurstSize : {10},
     BlockDuration : {-1, 0, 1},
     TargetURL : {"", "http://localhost:3000"}]
\* config := &Config{}
ZeroConfig ==
    [ListenAddr |-> "", RedisAddr |-> "", RedisPassword |-> "", RequestsPerMinute |-> 0,
     BurstSize |-> 0, BlockDuration |-> 0, TargetURL |-> ""]
\* what os.ReadFile and yaml.Unmarshal make of the file: its contents, or an error
Files ==
    [readable : {TRUE}, cfg : FileConfigs] \cup {[readable |-> FALSE, cfg |-> ZeroConfig]}
\* what os.Getenv returns for each variable ("" for one that is not set)
Environments ==
    [SHIELDER_LISTEN_ADDR : {"", ":9090"},
     REDIS_ADDR : {"", "redis:6380"},
     REDIS_PASSWORD : {"", "secret"},
     RATE_LIMIT_REQUESTS_PER_MINUTE : EnvNumbers,
     PROXY_TARGET_URL : {"", "http://backend"}]

\* the index after the digits of cs that start at index i
RECURSIVE ScanNumber(_, _)
ScanNumber(cs, i) ==
    IF i <= Len(cs) /\ cs[i] \in Digits THEN ScanNumber(cs, i + 1) ELSE i
\* the decimal value of cs[i], ..., cs[j - 1]
RECURSIVE ParseInt(_, _, _)
ParseInt(cs, i, j) ==
    IF j <= i THEN 0 ELSE ParseInt(cs, i, j - 1) * 10 + DigitValue(cs[j - 1])
\* fmt.Sscanf(cs, "%d", &n): an optional sign, then the digits that follow;
\* an error when there is no digit; what follows the digits is not read
Sscanf(cs) ==
    LET signed == Len(cs) >= 1 /\ cs[1] \in {"+", "-"}
        i == IF signed THEN 2 ELSE 1
        j == ScanNumber(cs, i)
    IN IF j = i THEN [err |-> TRUE, n |-> 0]
       ELSE [err |-> FALSE,
             n |-> (IF signed /\ cs[1] = "-" THEN -1 ELSE 1) * ParseInt(cs, i, j)]

loadEnvOverrides(cfg, env) ==
    LET rpm == env.RATE_LIMIT_REQUESTS_PER_MINUTE
        c1 == IF env.SHIELDER_LISTEN_ADDR # ""
              THEN [cfg EXCEPT !.ListenAddr = env.SHIELDER_LISTEN_ADDR] ELSE cfg
        c2 == IF env.REDIS_ADDR # "" THEN [c1 EXCEPT !.RedisAddr = env.REDIS_ADDR] ELSE c1
        c3 == IF env.REDIS_PASSWORD # ""
              THEN [c2 EXCEPT !.RedisPassword = env.REDIS_PASSWORD] ELSE c2
        c4 == IF rpm # <<>> /\ ~Sscanf(rpm).err
              THEN [c3 EXCEPT !.RequestsPerMinute = Sscanf(rpm).n] ELSE c3
    IN IF env.PROXY_TARGET_URL # "" THEN [c4 EXCEPT !.TargetURL = env.PROXY_TARGET_URL] ELSE c4

\* the checks with zero accepted as a rate and as a duration
validate_ZeroAccepted(cfg) ==
    IF cfg.ListenAddr = "" THEN "server listen address is required"
    ELSE IF cfg.TargetURL = "" THEN "proxy target URL is required"
    ELSE IF cfg.RequestsPerMinute < 0 THEN "rate limit requests per minute must be positive"
    ELSE IF cfg.BlockDuration < 0 THEN "rate limit block duration must be positive"
    ELSE Nil

validate(cfg) ==
    IF cfg.ListenAddr = "" THEN "server listen address is required"
    ELSE IF cfg.TargetURL = "" THEN "proxy target URL is required"
    ELSE IF cfg.RequestsPerMinute <= 0 THEN "rate limit requests per minute must be positive"
    ELSE IF cfg.BlockDuration <= 0 THEN "rate limit block duration must be positive"
    ELSE Nil

\* the process before Load: a configuration file and an environment
InitConfig ==
    /\ boot \in [pc : {"READ"}, file : Files, env : Environments,
                 cfg : {ZeroConfig}, err : {Nil}]
    /\ lifetime = NotRecorded
    /\ config = [RequestsPerMinute |-> 0, BurstSize |-> 0, BlockDuration |-> 0]
    /\ store = [k \in Keys |-> Absent]
    /\ handlers = EmptyBag
    /\ calls = [ip \in IPs |-> 0]
    /\ clean = [ip \in IPs |-> TRUE]
    /\ exceeded = [ip \in IPs |-> FALSE]
    /\ received = 0
    /\ failures = 0

\* Load: readConfigFile fills config from the file, or Load returns its error
ReadConfigFile ==
    /\ boot.pc = "READ"
    /\ boot' = IF boot.file.readable
               THEN [boot EXCEPT !.pc = "ENV", !.cfg = boot.file.cfg]
               ELSE [boot EXCEPT !.pc = "FAILED", !.err = "error reading config file"]
    /\ UNCHANGED <<lifetime, config, store, handlers, received, failures, calls, clean, exceeded>>

\* Load: loadEnvOverrides, which always returns nil
LoadEnvOverrides ==
    /\ boot.pc = "ENV"
    /\ boot' = [boot EXCEPT !.pc = "VALIDATE", !.cfg = loadEnvOverrides(boot.cfg, boot.env)]
    /\ UNCHANGED <<lifetime, config, store, handlers, received, failures, calls, clean, exceeded>>

\* Load: validate; its error makes Load fail and main exit (Fatalf)
Validate ==
    /\ boot.pc = "VALIDATE"
    /\ LET err == validate(boot.cfg)
       IN boot' = [boot EXCEPT !.pc = IF err = Nil THEN "LOADED" ELSE "FAILED", !.err = err]
    /\ UNCHANGED <<lifetime, config, store, handlers, received, failures, calls, clean, exceeded>>

NextConfig ==
    \/ ReadConfigFile
    \/ LoadEnvOverrides
    \/ Validate

SpecConfig == InitConfig /\ [][NextConfig]_vars

\* ------------------------------------------------------------- properties
\* number of calls named name among a handler's events
Count(trace, name) == Cardinality({i \in DOMAIN trace : trace[i][1] = name})
\* position of the first call named name (0 when there is none)
Pos(trace, name) ==
    IF Count(trace, name) = 0 THEN 0
    ELSE CHOOSE i \in DOMAIN trace :
            trace[i][1] = name /\ \A j \in DOMAIN trace : trace[j][1] = name => i <= j
\* client-visible responses written for a request
Responses(trace) == Count(trace, "http.Error") + Count(trace, "ServeHTTP")

HasBlock(s, ip) == s[BlockedKey(ip)].ttl # NoKey
HasCounter(s, ip) == s[RateKey(ip)].ttl # NoKey

\* the steps of this transition: a handler invocation h that becomes h2
Steps ==
    {h \in Requests : CopiesIn(h, handlers') < CopiesIn(h, handlers)}
        \X {h2 \in BagToSet(handlers') : CopiesIn(h2, handlers') > CopiesIn(h2, handlers)}

\* the IsAllowed call of h returns in the step to h2
IsAllowedReturns(h, h2) ==
    /\ h.pc \in {"RATE_CHECK", "PIPE_EXPIRE", "BLOCK_IP"}
    /\ h.allowed = "none"
    /\ h2.allowed # "none"
\* the number of that call among the identity's calls since its counter was created
CallNo(h) == IF h.pc = "RATE_CHECK" THEN calls'[h.clientIP] ELSE h.callNo

\* C1 as stated: the Nth IsAllowed call since the counter was created returns
\* (true, nil) for N <= threshold, the (threshold+1)-th returns false and
\* leaves the Block Record present
C1_Original ==
    [][\A p \in Steps : IsAllowedReturns(p[1], p[2]) =>
          LET ip == p[1].clientIP
              T == config.RequestsPerMinute
          IN /\ CallNo(p[1]) <= T => p[2].allowed = "true"
             /\ CallNo(p[1]) = T + 1 =>
                    p[2].allowed \in {"false", "false_error", "error"} /\ HasBlock(store', ip)
      ]_vars

\* C1 amended: as long as every store call made by IsAllowed for the identity
\* since its counter was created succeeds, the Nth call returns (true, nil)
\* for N <= threshold and the (threshold+1)-th returns (false, nil) and leaves
\* the Block Record present
C1_Amended ==
    [][\A p \in Steps :
          (IsAllowedReturns(p[1], p[2]) /\ p[1].cleanCall /\ p[2].allowed \in {"true", "false"}) =>
          LET ip == p[1].clientIP
              T == config.RequestsPerMinute
          IN /\ CallNo(p[1]) <= T => p[2].allowed = "true"
             /\ CallNo(p[1]) = T + 1 => p[2].allowed = "false" /\ HasBlock(store', ip)
      ]_vars

C1_Witness ==
    \E r \in Requests :
        /\ r.pc = "REJECTED" /\ r.allowed = "false"
        /\ clean[r.clientIP]
        /\ calls[r.clientIP] = config.RequestsPerMinute + 1
        /\ config.RequestsPerMinute = MaxThreshold
        /\ HasBlock(store, r.clientIP)

\* C2: when the store answers, IsBlocked returns true exactly when the Block
\* Record of the identity is present, whatever the counter's state
C2_IsBlockedIffBlockRecord ==
    [][\A p \in Steps :
          (p[1].pc = "BLOCK_CHECK" /\ p[2].blocked # "error") =>
          (p[2].blocked = "true" <=> HasBlock(store, p[1].clientIP))
      ]_vars

C2_Witness ==
    \E r \in Requests :
        /\ r.blocked = "true"
        /\ HasBlock(store, r.clientIP)
        /\ ~HasCounter(store, r.clientIP)

\* C3: a request is forwarded only after IsBlocked returned (false, nil) and
\* then IsAllowed returned (true, nil); IsAllowed = (false, nil) is answered
\* 429 with one IncBlockedRequests of the identity and no forward
C3_ForwardOnlyAfterBothChecks ==
    \A r \in Requests :
        LET t == r.trace IN
        /\ (Count(t, "ServeHTTP") > 0 \/ r.pc \in {"FORWARD", "DONE"}) =>
              /\ r.blocked = "false" /\ r.allowed = "true"
              /\ Count(t, "IsBlocked") = 1 /\ Count(t, "IsAllowed") = 1
              /\ Pos(t, "IsBlocked") < Pos(t, "IsAllowed")
              /\ Count(t, "ServeHTTP") > 0 => Pos(t, "IsAllowed") < Pos(t, "ServeHTTP")
        /\ r.allowed = "false" =>
              /\ r.pc = "REJECTED"
              /\ Count(t, "ServeHTTP") = 0
              /\ Count(t, "IncBlockedRequests") = 1
              /\ t[Pos(t, "IncBlockedRequests")] = IncBlockedRequests(r.clientIP)
              /\ t[Pos(t, "http.Error")] = <<"http.Error", 429>>

C3_Witness ==
    /\ \E r \in Requests : r.pc = "DONE" /\ Count(r.trace, "ServeHTTP") = 1
    /\ \E r \in Requests : r.pc = "REJECTED" /\ r.allowed = "false"

\* C4: a request found blocked is answered 429 with one IncBlockedRequests,
\* is not forwarded, IsAllowed is not called, and the identity's counter
\* (value and TTL) and Block Record are left as they were
C4_BlockedLeavesStore ==
    [][\A p \in Steps :
          (p[1].pc = "BLOCK_CHECK" /\ p[2].blocked = "true") =>
          LET ip == p[1].clientIP
              t == p[2].trace
          IN /\ p[2].pc = "REJECTED"
             /\ t[Pos(t, "http.Error")] = <<"http.Error", 429>>
             /\ Count(t, "IncBlockedRequests") = 1
             /\ t[Pos(t, "IncBlockedRequests")] = IncBlockedRequests(ip)
             /\ Count(t, "ServeHTTP") = 0 /\ Count(t, "IsAllowed") = 0
             /\ p[2].allowed = "none"
             /\ store'[RateKey(ip)] = store[RateKey(ip)]
             /\ store'[BlockedKey(ip)] = store[BlockedKey(ip)]
      ]_vars

C4_Witness ==
    \E r \in Requests :
        /\ r.pc = "REJECTED" /\ r.blocked = "true"
        /\ store[RateKey(r.clientIP)].ttl > 0
        /\ store[RateKey(r.clientIP)].val > config.RequestsPerMinute

C6_IncrExpireAtomic ==
    [][\A p \in Steps :
          (p[1].pc = "RATE_CHECK" /\ p[2].pc = "PIPE_EXPIRE") =>
              store[RateKey(p[1].clientIP)].ttl # NoTTL
      ]_vars

\* C7: a store failure in either check is answered 500, the request is not
\* forwarded and neither IncBlockedRequests nor IncSuccessfulRequests is
\* called; after an IsBlocked error IsAllowed is not called
C7_StoreErrorIs500 ==
    \A r \in Requests :
        LET t == r.trace IN
        /\ (r.blocked = "error" \/ r.allowed \in {"error", "false_error"}) =>
              /\ r.pc = "STORE_ERROR"
              /\ Count(t, "http.Error") = 1
              /\ t[Pos(t, "http.Error")] = <<"http.Error", 500>>
              /\ Count(t, "ServeHTTP") = 0
              /\ Count(t, "IncBlockedRequests") = 0
              /\ Count(t, "IncSuccessfulRequests") = 0
        /\ r.blocked = "error" => Count(t, "IsAllowed") = 0 /\ r.allowed = "none"

C7_Witness ==
    \E r \in Requests : r.pc = "STORE_ERROR" /\ r.allowed = "false_error"

\* metric calls made for a request
OutcomeMetrics(t) == Count(t, "IncBlockedRequests") + Count(t, "IncSuccessfulRequests")
AllMetrics(t) == OutcomeMetrics(t) + Count(t, "ObserveRequestDuration")

\* C8 as stated: each terminal state produces one response and one metric
\* emission, whether the emissions counted are all the collector's calls or
\* only the outcome counters
C8_Original ==
    \/ \A r \in Requests : r.pc \in Terminal =>
            Responses(r.trace) = 1 /\ AllMetrics(r.trace) = 1
    \/ \A r \in Requests : r.pc \in Terminal =>
            Responses(r.trace) = 1 /\ OutcomeMetrics(r.trace) = 1

\* C8 amended: each terminal state produces exactly one response and exactly
\* one ObserveRequestDuration; DONE adds exactly one IncSuccessfulRequests,
\* REJECTED exactly one IncBlockedRequests, STORE_ERROR no outcome counter;
\* before the terminal state nothing is written or recorded
C8_Amended ==
    \A r \in Requests :
        LET t == r.trace IN
        /\ r.pc \in Terminal =>
              /\ Responses(t) = 1
              /\ Count(t, "ObserveRequestDuration") = 1
              /\ Count(t, "IncSuccessfulRequests") = (IF r.pc = "DONE" THEN 1 ELSE 0)
              /\ Count(t, "IncBlockedRequests") = (IF r.pc = "REJECTED" THEN 1 ELSE 0)
        /\ r.pc \notin Terminal => Responses(t) = 0 /\ AllMetrics(t) = 0

C8_Witness ==
    /\ \E r \in Requests : r.pc = "STORE_ERROR"
    /\ \E r \in Requests : r.pc = "REJECTED"

\* C9: whatever the outcome, ObserveRequestDuration is called exactly once per
\* request, with the request's path, as the last call of the handler, and not
\* before the request was received
C9_ObserveOncePerRequest ==
    \A r \in Requests :
          LET t == r.trace IN
          /\ r.pc \in Terminal =>
                /\ Count(t, "ObserveRequestDuration") = 1
                /\ t[Len(t)] = ObserveRequestDuration(r.path)
                /\ t[1] = <<"Received", r.clientIP>>
          /\ r.pc \notin Terminal => Count(t, "ObserveRequestDuration") = 0

C9_Witness ==
    /\ \E r \in Requests : r.pc = "STORE_ERROR" /\ r.path = "/x"
    /\ \E r \in Requests : r.pc = "DONE" /\ r.path = "/"

\* C10: while no IsAllowed call for an identity has read a count above the
\* threshold, the identity has no Block Record, no request of it is answered
\* by IncBlockedRequests, and every request of it that met no store failure
\* is forwarded with exactly one IncSuccessfulRequests of that identity
C10_NeverExceededNeverBlocked ==
    \A ip \in IPs : ~exceeded[ip] =>
        /\ ~HasBlock(store, ip)
        /\ \A r \in Requests : (r.clientIP = ip) =>
              LET t == r.trace IN
              /\ Count(t, "IncBlockedRequests") = 0
              /\ r.pc \in Terminal =>
                    \/ r.pc = "STORE_ERROR" /\ "error" \in {r.blocked, r.allowed}
                    \/ /\ r.pc = "DONE"
                       /\ Count(t, "ServeHTTP") = 1
                       /\ Count(t, "IncSuccessfulRequests") = 1
                       /\ t[Pos(t, "IncSuccessfulRequests")] = IncSuccessfulRequests(ip)

C10_Witness ==
    /\ ~exceeded["B"] /\ exceeded["A"]
    /\ HasBlock(store, "A")
    /\ \E r \in Requests : r.clientIP = "B" /\ r.pc = "DONE"

\* C11 as stated: every IsAllowed call that read a count above the threshold
\* leaves the Block Record with exactly the full block duration, never shorter
\* than before, and with its value unchanged
C11_Original ==
    [][\A p \in Steps : p[1].pc = "BLOCK_IP" =>
          LET old == store[BlockedKey(p[1].clientIP)]
              new == store'[BlockedKey(p[1].clientIP)]
          IN /\ new = [val |-> 1, ttl |-> config.BlockDuration]
             /\ new.ttl >= old.ttl
             /\ old.ttl # NoKey => new.val = old.val
      ]_vars

\* C11 amended: an IsAllowed call that read a count above the threshold and
\* whose Block Record write succeeds leaves the record with exactly the full
\* block duration; when the write fails the record is left as it was; in both
\* cases the remaining lifetime is not shorter than before, not longer than
\* one block duration, and the value of an existing record is unchanged
C11_Amended ==
    [][\A p \in Steps : p[1].pc = "BLOCK_IP" =>
          LET old == store[BlockedKey(p[1].clientIP)]
              new == store'[BlockedKey(p[1].clientIP)]
          IN /\ p[2].allowed = "false" => new = [val |-> 1, ttl |-> config.BlockDuration]
             /\ p[2].allowed = "false_error" => new = old
             /\ p[2].allowed \in {"false", "false_error"}
             /\ new.ttl >= old.ttl
             /\ new.ttl <= config.BlockDuration
             /\ old.ttl # NoKey => new.val = old.val
      ]_vars

\* two calls of one identity that read a count above the threshold have both
\* written the Block Record, the clock having advanced since the counter's TTL
\* was last set
C11_Witness ==
    \E r \in Requests, r2 \in Requests :
        /\ r.clientIP = r2.clientIP
        /\ r # r2 \/ CopiesIn(r, handlers) > 1
        /\ r.allowed = "false" /\ r2.allowed = "false"
        /\ store[BlockedKey(r.clientIP)].ttl = config.BlockDuration
        /\ config.BlockDuration = MaxBlockDuration
        /\ store[RateKey(r.clientIP)].ttl \in 1..(Window - 1)

\* every record of an identity runs out within its period: the Block Record
\* within one block duration, the counter within one window (a counter is
\* without TTL only between the two commands of a call in progress)
RecordsRunOut ==
    \A ip \in IPs :
        /\ store[BlockedKey(ip)].ttl \in {NoKey} \cup (1..config.BlockDuration)
        /\ store[RateKey(ip)].ttl \in {NoKey, NoTTL} \cup (1..Window)
        /\ store[RateKey(ip)].ttl = NoTTL =>
              \E r \in Requests : r.clientIP = ip /\ r.pc = "PIPE_EXPIRE"
\* while only the clock advances, every remaining TTL shrinks by one tick and
\* a record whose TTL runs out is removed
ClockRunsDown ==
    (handlers' = handlers /\ store' # store) =>
        \A k \in Keys : store[k].ttl > 0 =>
            store'[k].ttl = (IF store[k].ttl = 1 THEN NoKey ELSE store[k].ttl - 1)
\* the identity of h is as an idle period leaves it: neither record in the
\* store and no other request of it being handled
Rested(h) ==
    /\ ~HasBlock(store, h.clientIP)
    /\ ~HasCounter(store, h.clientIP)
    /\ CopiesIn(h, handlers) = 1
    /\ \A r \in Requests : (r.clientIP = h.clientIP /\ r # h) => r.pc \in Terminal
\* a request that counted as 1 is allowed and forwarded
FirstCountForwarded(h, h2) ==
    /\ (h.pc = "PIPE_EXPIRE" /\ h.count = 1) => (h2.allowed = "true" /\ h2.pc = "FORWARD")
    /\ h.pc = "FORWARD" => (h2.pc = "DONE" /\ Count(h2.trace, "ServeHTTP") = 1)

\* C12 as stated: the records of an identity run out within the window and the
\* block duration, and the next request of an identity left idle that long
\* finds IsBlocked = false, counts as 1 and is forwarded
C12_Original ==
    [][/\ RecordsRunOut /\ ClockRunsDown
       /\ \A p \in Steps :
             /\ (Rested(p[1]) /\ p[1].pc = "BLOCK_CHECK") =>
                   (p[2].blocked = "false" /\ p[2].pc = "RATE_CHECK")
             /\ (Rested(p[1]) /\ p[1].pc = "RATE_CHECK") =>
                   (p[2].count = 1 /\ p[2].pc = "PIPE_EXPIRE")
             /\ FirstCountForwarded(p[1], p[2])
      ]_vars

\* C12 amended: the same, for a request whose store calls succeed; a request
\* whose IsBlocked or IsAllowed call fails ends in STORE_ERROR instead
C12_Amended ==
    [][/\ RecordsRunOut /\ ClockRunsDown
       /\ \A p \in Steps :
             /\ (Rested(p[1]) /\ p[1].pc = "BLOCK_CHECK") =>
                   IF p[2].blocked = "error" THEN p[2].pc = "STORE_ERROR"
                   ELSE p[2].blocked = "false" /\ p[2].pc = "RATE_CHECK"
             /\ (Rested(p[1]) /\ p[1].pc = "RATE_CHECK") =>
                   IF p[2].allowed = "error" THEN p[2].pc = "STORE_ERROR"
                   ELSE p[2].count = 1 /\ p[2].pc = "PIPE_EXPIRE"
             /\ FirstCountForwarded(p[1], p[2])
      ]_vars

\* an identity that exceeded the threshold and was blocked has been left idle
\* until both records ran out; its next request counted as 1 and was forwarded
C12_Witness ==
    \E r \in Requests :
        /\ r.pc = "DONE"
        /\ BagCardinality(handlers) = 1
        /\ received = NumRequests
        /\ failures = 0
        /\ exceeded[r.clientIP]
        /\ ~HasBlock(store, r.clientIP)
        /\ store[RateKey(r.clientIP)] = [val |-> 1, ttl |-> Window]

\* C13: the step a run takes is the step the run configured with any other
\* burst size takes from the same state on the same input: the same IsAllowed
\* decision and the same store contents, so the two runs agree at every step
C13_BurstHasNoEffect ==
    [][\A b \in BurstSizes :
          LET other == [config EXCEPT !.BurstSize = b] IN
          \A p \in Steps :
              /\ p[1].pc = "PIPE_EXPIRE" =>
                    /\ (p[2].pc = "BLOCK_IP") = OverLimit(p[1].count, other)
                    /\ (p[2].allowed = "true") = ~OverLimit(p[1].count, other)
              /\ (p[1].pc = "BLOCK_IP" /\ p[2].allowed = "false") =>
                    store' = BlockIP(store, p[1].clientIP, other)
      ]_vars

\* a limiter configured with a burst size has rejected the call that read
\* threshold + 1, a count within threshold + burst size
C13_Witness ==
    \E r \in Requests :
        /\ config.BurstSize = MaxBurst /\ MaxBurst > 0
        /\ r.pc = "REJECTED" /\ r.allowed = "false"
        /\ clean[r.clientIP]
        /\ calls[r.clientIP] = config.RequestsPerMinute + 1
        /\ store[RateKey(r.clientIP)].val = config.RequestsPerMinute + 1

\* the configuration is one that validation must refuse
Invalid(c) ==
    \/ c.ListenAddr = "" \/ c.TargetURL = ""
    \/ c.RequestsPerMinute <= 0 \/ c.BlockDuration <= 0

\* C14: Load fails with a validation error exactly when, after the
\* environment overrides, the listen address or the target URL is empty or
\* requestsPerMinute or blockDuration is not positive, and succeeds otherwise
C14_ValidateRejectsInvalid ==
    (boot.pc \in {"LOADED", "FAILED"} /\ boot.file.readable) =>
        LET c == boot.cfg
            f == boot.file.cfg
            e == boot.env
        IN /\ boot.pc = "FAILED" <=> Invalid(c)
           /\ boot.pc = "FAILED" <=> boot.err # Nil
           /\ c.ListenAddr =
                 (IF e.SHIELDER_LISTEN_ADDR # "" THEN e.SHIELDER_LISTEN_ADDR ELSE f.ListenAddr)
           /\ c.TargetURL =
                 (IF e.PROXY_TARGET_URL # "" THEN e.PROXY_TARGET_URL ELSE f.TargetURL)
           /\ e.RATE_LIMIT_REQUESTS_PER_MINUTE = << "0" >> => c.RequestsPerMinute = 0
           /\ e.RATE_LIMIT_REQUESTS_PER_MINUTE = <<>> => c.RequestsPerMinute = f.RequestsPerMinute
           /\ c.BlockDuration = f.BlockDuration

\* a file that is valid by itself is refused because of the rate the
\* environment sets
C14_Witness ==
    /\ boot.pc = "FAILED"
    /\ boot.file.readable /\ ~Invalid(boot.file.cfg)
    /\ boot.env.RATE_LIMIT_REQUESTS_PER_MINUTE = << "0" >>
    /\ boot.err = "rate limit requests per minute must be positive"

\* cs is a decimal numeral: an optional sign and one or more digits, nothing else
IsNumeral(cs) ==
    LET i == IF Len(cs) >= 1 /\ cs[1] \in {"+", "-"} THEN 2 ELSE 1
    IN i <= Len(cs) /\ \A k \in i..Len(cs) : cs[k] \in Digits
\* the integer a numeral denotes
NumeralValue(cs) ==
    LET i == IF Len(cs) >= 1 /\ cs[1] \in {"+", "-"} THEN 2 ELSE 1
    IN (IF cs[1] = "-" THEN -1 ELSE 1) * ParseInt(cs, i, Len(cs) + 1)

\* C15: in a loaded configuration each of the five fields holds the value of
\* its environment variable when that value is not empty and the file's value
\* otherwise, and the other fields hold the file's values
C15_EnvOverridesFile ==
    boot.pc = "LOADED" =>
        LET c == boot.cfg
            f == boot.file.cfg
            e == boot.env
            rpm == e.RATE_LIMIT_REQUESTS_PER_MINUTE
        IN /\ c.ListenAddr =
                 (IF e.SHIELDER_LISTEN_ADDR # "" THEN e.SHIELDER_LISTEN_ADDR ELSE f.ListenAddr)
           /\ c.RedisAddr = (IF e.REDIS_ADDR # "" THEN e.REDIS_ADDR ELSE f.RedisAddr)
           /\ c.RedisPassword =
                 (IF e.REDIS_PASSWORD # "" THEN e.REDIS_PASSWORD ELSE f.RedisPassword)
           /\ c.TargetURL =
                 (IF e.PROXY_TARGET_URL # "" THEN e.PROXY_TARGET_URL ELSE f.TargetURL)
           /\ rpm = <<>> => c.RequestsPerMinute = f.RequestsPerMinute
           /\ rpm # <<>> => IsNumeral(rpm) /\ c.RequestsPerMinute = NumeralValue(rpm)
           /\ c.BurstSize = f.BurstSize
           /\ c.BlockDuration = f.BlockDuration

\* the pair (allowed, err) that IsAllowed returned to a handler
ReturnedAllowed(h) == h.allowed = "true"
ReturnedError(h) == h.allowed \in {"error", "false_error"}

\* C16: a call whose count exceeds the threshold returns false, with an error
\* exactly when the Block Record write failed; a call whose pipeline fails
\* returns (false, error) and leaves the Block Record as it was; true is never
\* returned with an error, and (true, nil) only for a count read <= threshold
C16_IsAllowedResult ==
    [][\A p \in Steps :
          LET h == p[1]
              h2 == p[2]
              ip == h.clientIP
              T == config.RequestsPerMinute
          IN /\ (h.pc = "PIPE_EXPIRE" /\ h.count > T) =>
                   (h2.pc = "BLOCK_IP" /\ h2.allowed = "none")
             /\ h.pc = "BLOCK_IP" =>
                   /\ h.count > T
                   /\ ~ReturnedAllowed(h2) /\ h2.allowed # "none"
                   /\ ReturnedError(h2) <=> failures' = failures + 1
                   /\ ReturnedError(h2) => store' = store
                   /\ ~ReturnedError(h2) => store' = BlockIP(store, ip, config)
             /\ (h.pc = "RATE_CHECK" /\ failures' = failures + 1) =>
                   /\ ~ReturnedAllowed(h2) /\ ReturnedError(h2)
                   /\ store' = store
             /\ (h.pc = "RATE_CHECK" /\ failures' = failures) => h2.allowed = "none"
             /\ IsAllowedReturns(h, h2) => ~(ReturnedAllowed(h2) /\ ReturnedError(h2))
             /\ (IsAllowedReturns(h, h2) /\ ReturnedAllowed(h2)) =>
                   /\ h.pc = "PIPE_EXPIRE"
                   /\ h.count <= T
                   /\ h.count >= 1
      ]_vars

\* a call read a count above the threshold and its Block Record write failed:
\* it returned (false, error) and there is no Block Record
C16_Witness ==
    \E r \in Requests :
        /\ r.allowed = "false_error"
        /\ ~HasBlock(store, r.clientIP)
        /\ store[RateKey(r.clientIP)].val > config.RequestsPerMinute

\* the pipeline of h's IsAllowed call is applied in the step to h2
Incremented(h, h2) == h.pc = "RATE_CHECK" /\ h2.pc = "PIPE_EXPIRE"

\* C17: while a counter exists its value never decreases; it changes only by
\* the INCR of a call whose pipeline succeeds, by exactly 1; a counter is
\* created only by such an INCR, with value 1, and removed only by the expiry
\* of its TTL; IsBlocked, BlockIP and failed calls leave the value as it is
C17_CounterNeverDecreases ==
    [][\A ip \in IPs :
          LET old == store[RateKey(ip)]
              new == store'[RateKey(ip)]
              incr == \E p \in Steps : p[1].clientIP = ip /\ Incremented(p[1], p[2])
          IN /\ (old.ttl # NoKey /\ new.ttl # NoKey) => new.val >= old.val
             /\ incr => new.val = (IF old.ttl = NoKey THEN 1 ELSE old.val + 1)
             /\ incr => new.ttl # NoKey
             /\ ~incr => (new.val = old.val \/ new = Absent)
             /\ (old.ttl # NoKey /\ new.ttl = NoKey) =>
                   (old.ttl = 1 /\ handlers' = handlers /\ store' = Elapse(store))
             /\ \A p \in Steps : (p[1].clientIP = ip /\ ~Incremented(p[1], p[2])) =>
                   new.val = old.val
      ]_vars

\* every request received has incremented the counter of identity A, one of
\* them in a call whose Block Record write failed
C17_Witness ==
    /\ store[RateKey("A")].val = NumRequests
    /\ failures = MaxFailures /\ MaxFailures > 0
    /\ \E r \in Requests : r.clientIP = "A" /\ r.allowed = "false_error"

\* the Block Record of the identity is gone while its counter is above the threshold
Lapsed(ip) ==
    /\ ~HasBlock(store, ip)
    /\ HasCounter(store, ip)
    /\ store[RateKey(ip)].val > config.RequestsPerMinute
\* a Block Record appears only in the step in which a call that read a count
\* above the threshold returns
BlockOnlyByIsAllowed ==
    \A ip \in IPs : (~HasBlock(store, ip) /\ HasBlock(store', ip)) =>
        \E p \in Steps : p[1].clientIP = ip /\ p[1].pc = "BLOCK_IP"

C19_BlockOnlyExpires ==
    [][\A ip \in IPs :
          LET old == store[BlockedKey(ip)]
              new == store'[BlockedKey(ip)]
              clock == handlers' = handlers /\ store' = Elapse(store)
              write == \E p \in Steps :
                          /\ p[1].clientIP = ip /\ p[1].pc = "BLOCK_IP"
                          /\ p[1].count > config.RequestsPerMinute
                          /\ p[2].allowed = "false"
          IN /\ new # old => (clock \/ write)
             /\ (new # old /\ ~write) =>
                   (old.ttl > 0 /\ new = (IF old.ttl = 1 THEN Absent
                                          ELSE [old EXCEPT !.ttl = @ - 1]))
             /\ write => (new = [val |-> 1, ttl |-> config.BlockDuration] /\ new.ttl >= old.ttl)
             /\ (old.ttl # NoKey /\ new.ttl = NoKey) => (clock /\ old.ttl = 1)
      ]_vars

\* a request has been rejected by the block check while the Block Record was
\* about to run out; the record is as the clock left it
C19_Witness ==
    \E r \in Requests :
        /\ r.pc = "REJECTED" /\ r.blocked = "true"
        /\ config.BlockDuration = MaxBlockDuration /\ MaxBlockDuration > 1
        /\ store[BlockedKey(r.clientIP)].ttl = 1
        /\ received = NumRequests

\* the handler's position in its state machine
Rank(pc) ==
    CASE pc = "BLOCK_CHECK" -> 0
      [] pc = "RATE_CHECK" -> 1
      [] pc = "PIPE_EXPIRE" -> 2
      [] pc = "BLOCK_IP" -> 3
      [] pc = "FORWARD" -> 4
      [] pc \in Terminal -> 5

\* C20: a request makes at most one IsBlocked and one IsAllowed call and
\* increments its identity's counter at most once, in its only IsAllowed
\* call; a store call that fails ends the request in STORE_ERROR in the same
\* step and changes neither the store nor any other request
C20_NoRetries ==
    [][/\ \A r \in Requests :
             Count(r.trace, "IsBlocked") <= 1 /\ Count(r.trace, "IsAllowed") <= 1
       /\ Cardinality(Steps) <= 1
       /\ \A p \in Steps :
             /\ Rank(p[2].pc) > Rank(p[1].pc)
             /\ handlers' (-) SetToBag({p[2]}) = handlers (-) SetToBag({p[1]})
             /\ store'[RateKey(p[1].clientIP)].val # store[RateKey(p[1].clientIP)].val =>
                   /\ Count(p[1].trace, "IsAllowed") = 0
                   /\ Count(p[2].trace, "IsAllowed") = 1
                   /\ store'[RateKey(p[1].clientIP)].val <= store[RateKey(p[1].clientIP)].val + 1
             /\ failures' = failures + 1 =>
                   /\ p[2].pc = "STORE_ERROR"
                   /\ store' = store
       /\ failures' # failures => Cardinality(Steps) = 1
      ]_vars

\* a request of an identity ended in STORE_ERROR without touching the counter,
\* and another request of the same identity was counted as 1 and forwarded
C20_Witness ==
    \E r \in Requests, r2 \in Requests :
        /\ r.clientIP = r2.clientIP
        /\ r.pc = "STORE_ERROR" /\ r.allowed = "error"
        /\ r2.pc = "DONE"
        /\ store[RateKey(r.clientIP)].val = 1

\* no INCR applied to a counter since its creation is lost: its value is their number
IncrementsKept ==
    \A ip \in IPs : HasCounter(store, ip) => store[RateKey(ip)].val = lifetime.incrs[ip]

\* C21 as stated: under any interleaving no increment is lost, and between the
\* creation of an identity's counter and its expiry at most threshold
\* requests of the identity are forwarded
C21_Original ==
    /\ IncrementsKept
    /\ \A ip \in IPs : lifetime.forwarded[ip] <= config.RequestsPerMinute

\* C21 amended: under any interleaving no increment is lost, every call reads
\* as its count the number of INCRs applied to the counter since its creation,
\* at most threshold of the calls counted by one counter read a count that is
\* allowed, and only a call that read such a count is forwarded
C21_Amended ==
    [][/\ IncrementsKept
       /\ \A ip \in IPs :
             /\ lifetime.admitted[ip] <= config.RequestsPerMinute
             /\ lifetime.admitted[ip] <= lifetime.incrs[ip]
       /\ \A p \in Steps :
             /\ Incremented(p[1], p[2]) => p[2].count = lifetime'.incrs[p[1].clientIP]
             /\ p[2].pc = "FORWARD" =>
                   /\ p[1].pc = "PIPE_EXPIRE"
                   /\ p[1].count \in 1..config.RequestsPerMinute
                   /\ p[2].allowed = "true"
             /\ p[2].pc = "DONE" => p[1].pc = "FORWARD"
      ]_vars

\* two calls of one identity are in progress at once, every request received
\* has incremented the counter, and exactly threshold of them read an allowed count
C21_Witness ==
    \E r \in Requests, r2 \in Requests :
        /\ r.clientIP = r2.clientIP /\ r # r2
        /\ r.pc \in {"PIPE_EXPIRE", "BLOCK_IP"} /\ r2.pc \in {"PIPE_EXPIRE", "BLOCK_IP"}
        /\ lifetime.incrs[r.clientIP] = NumRequests
        /\ lifetime.admitted[r.clientIP] = config.RequestsPerMinute
        /\ config.RequestsPerMinute = MaxThreshold

\* C22: a step of a request of one identity leaves the counter and the Block
\* Record of every other identity as they were, and what the request is
\* answered (blocked or not, the count it reads) is computed from the two
\* records of its own identity
C22_IdentityIsolation ==
    [][\A p \in Steps :
          LET ip == p[1].clientIP IN
          /\ \A other \in IPs \ {ip} :
                /\ store'[RateKey(other)] = store[RateKey(other)]
                /\ store'[BlockedKey(other)] = store[BlockedKey(other)]
          /\ \A k \in Keys : store'[k] # store[k] => k \in {RateKey(ip), BlockedKey(ip)}
          /\ (p[1].pc = "BLOCK_CHECK" /\ p[2].blocked # "error") =>
                (p[2].blocked = "true" <=> store[BlockedKey(ip)].ttl # NoKey)
          /\ Incremented(p[1], p[2]) =>
                p[2].count = (IF store[RateKey(ip)].ttl = NoKey THEN 1
                              ELSE store[RateKey(ip)].val + 1)
      ]_vars

\* identity A has exceeded the threshold and is blocked, while the only
\* request of identity B was counted as 1 and forwarded
C22_Witness ==
    /\ store[BlockedKey("A")].ttl # NoKey
    /\ store[RateKey("A")].val = config.RequestsPerMinute + 1
    /\ store[RateKey("B")].val = 1 /\ store[RateKey("B")].ttl # NoKey
    /\ store[BlockedKey("B")].ttl = NoKey
    /\ received = NumRequests
    /\ \E r \in Requests : r.clientIP = "B" /\ r.pc = "DONE"

\* the requests in progress that have not reached a terminal state
Pending == {r \in Requests : r.pc \notin Terminal}

\* C23: when store calls and forwards eventually return, every request
\* received reaches DONE, REJECTED or STORE_ERROR; each step of a handler moves
\* it forward in its state machine, so it never revisits a state and ends
\* within five steps, whatever the other requests in progress do
C23_EveryRequestEnds ==
    /\ [][\A p \in Steps : Rank(p[2].pc) > Rank(p[1].pc)]_vars
    /\ [](\A r \in Requests : Len(r.trace) <= 6)
    /\ [](Pending # {} => <>(Pending = {}))
    /\ <>[](Pending = {})

\* with as many requests in progress as can be, all of them have ended, one
\* forwarded and one by a store error
C23_Witness ==
    /\ received = NumRequests
    /\ BagCardinality(handlers) = MaxInFlight
    /\ Pending = {}
    /\ \E r \in Requests : r.pc = "DONE"
    /\ \E r \in Requests : r.pc = "STORE_ERROR"
====
